---- MODULE Spec2Model ----
(***************************************************************************)
(* Model of the autocomplete service of src/main.rs: the Normalizer        *)
(* (validate_transform_tag), the Escaper (db::escape_like), the Store      *)
(* Client (db::get_tags), the moka Result Cache and the request handler    *)
(* (autocomplete).                                                         *)
(*                                                                         *)
(* Strings are sequences of characters; a character is a one-token string. *)
(* Besides ASCII letters the alphabet has the characters whose treatment   *)
(* by NFC, to_lowercase and len() (UTF-8 bytes) is not the identity:       *)
(*   "ACUTE"  U+0301 combining acute accent          (2 bytes)             *)
(*   "E_ACUTE" U+00E9, the NFC composition of e + U+0301 (2 bytes)         *)
(*   "I_DOT"  U+0130, whose lowercase is i + U+0307   (2 bytes)            *)
(*   "DOT"    U+0307 combining dot above              (2 bytes)            *)
(*   "NBSP"   U+00A0, a non-ASCII whitespace          (2 bytes)            *)
(***************************************************************************)
EXTENDS Integers, Sequences, FiniteSets, TLC

VARIABLES
    pc,          \* per request: position in the handler
    raw,         \* per request: req.tag_prefix
    prefix,      \* per request: the canonical key (let prefix)
    cached,      \* per request: result of data.cache.get(&prefix)
    client,      \* per request: TRUE while a pooled connection is held
    rowsA,       \* per request: rows of the Tier A query
    rowsB,       \* per request: rows of the Tier B query
    results,     \* per request: value returned by db::get_tags
    serialized,  \* per request: the body written to the cache
    resp,        \* per request: the HTTP response produced
    calls,       \* per request: number of calls of each collaborator
    failed_at,   \* per request: the backend call that returned an error
    logged,      \* per request: the error text written by error!(..)
    after,       \* per request: the requests whose response it arrived after
    cache,       \* the moka cache: key -> [value, age, writer]
    borrowed,    \* number of connections checked out of the pool
    fn_pc,       \* pure-function harness: position
    fn_in,       \* pure-function harness: argument
    fn_out,      \* pure-function harness: result of validate_transform_tag
    fn_pat       \* pure-function harness: result of escape_like

vars == <<pc, raw, prefix, cached, client, rowsA, rowsB, results, serialized,
          resp, calls, failed_at, logged, after, cache, borrowed, fn_pc, fn_in, fn_out, fn_pat>>

reqVars == <<pc, raw, prefix, cached, client, rowsA, rowsB, results, serialized,
             resp, calls, failed_at, logged, after, cache, borrowed>>

fnVars == <<fn_pc, fn_in, fn_out, fn_pat>>

\* Bounds of the model.
NumReqs == 2        \* concurrent requests
PoolSize == 1       \* connections of the pool (deployment: from the environment)
MaxCapacity == 1    \* entries of the cache (deployment: 15_000)
MaxHead == 3        \* characters enumerated in front of the padding of an input

\* Program constants.
MinLen == 3
MaxLen == 100
TimeToLive == 6 * 60 * 60

None == "None"

(***************************************************************************)
(* Strings.                                                                *)
(***************************************************************************)
Rep(c, n) == [i \in 1..n |-> c]

\* Length in UTF-8 bytes of a character: what str::len counts.
Utf8Len(c) == IF c \in {"ACUTE", "E_ACUTE", "I_DOT", "DOT", "NBSP"} THEN 2 ELSE 1

\* The recursions below split the string in halves or jump from match to
\* match, so that their depth stays small on strings of a hundred characters.
RECURSIVE ByteLen(_)
ByteLen(s) ==
    IF s = <<>> THEN 0
    ELSE IF Len(s) = 1 THEN Utf8Len(s[1])
    ELSE LET h == Len(s) \div 2
         IN  ByteLen(SubSeq(s, 1, h)) + ByteLen(SubSeq(s, h + 1, Len(s)))

\* The first position where from occurs in s, or 0.
FirstMatch(s, from) ==
    LET occ == {i \in 1..(Len(s) - Len(from) + 1) : SubSeq(s, i, i + Len(from) - 1) = from}
    IN  IF occ = {} THEN 0 ELSE CHOOSE i \in occ : \A j \in occ : i <= j

\* str::replace: every non-overlapping match of from, left to right.
RECURSIVE Replace(_, _, _)
Replace(s, from, to) ==
    LET i == FirstMatch(s, from)
    IN  IF i = 0 THEN s
        ELSE SubSeq(s, 1, i - 1) \o to
             \o Replace(SubSeq(s, i + Len(from), Len(s)), from, to)

\* UnicodeNormalization::nfc: canonical composition (e + U+0301 -> U+00E9).
Nfc(s) == Replace(s, <<"e", "ACUTE">>, <<"E_ACUTE">>)

\* char::to_lowercase.
LowerChar(c) ==
    CASE c = "A" -> <<"a">>
      [] c = "B" -> <<"b">>
      [] c = "C" -> <<"c">>
      [] c = "I_DOT" -> <<"i", "DOT">>
      [] OTHER -> <<c>>

RECURSIVE ToLowercase(_)
ToLowercase(s) ==
    IF s = <<>> THEN <<>>
    ELSE IF Len(s) = 1 THEN LowerChar(s[1])
    ELSE LET h == Len(s) \div 2
         IN  ToLowercase(SubSeq(s, 1, h)) \o ToLowercase(SubSeq(s, h + 1, Len(s)))

\* char::is_whitespace.
IsWhitespace(c) == c \in {" ", "NBSP"}

\* .chars().filter(|x| !x.is_whitespace()).collect()
FilterNotWhitespace(s) == SelectSeq(s, LAMBDA c : ~IsWhitespace(c))

(***************************************************************************)
(* Normalizer.                                                             *)
(***************************************************************************)
Ok(v) == [ok |-> TRUE, val |-> v]
Err(e) == [ok |-> FALSE, val |-> e]

TooLong(tag) == ByteLen(tag) > MaxLen

TooShort(tag) == ByteLen(tag) < MinLen

Transform(tag) ==
    FilterNotWhitespace(
        Replace(Replace(ToLowercase(Nfc(tag)), <<"*">>, <<>>), <<"%">>, <<>>))

\* Mutant: the lower length check is missing.
validate_transform_tag_NoMin(tag) ==
    IF TooLong(tag) THEN Err("BadRequest") ELSE Ok(Transform(tag))

validate_transform_tag(tag) ==
    IF TooLong(tag) THEN Err("BadRequest")
    ELSE IF TooShort(tag) THEN Err("BadRequest")
    ELSE Ok(Transform(tag))

(***************************************************************************)
(* Escaper.                                                                *)
(***************************************************************************)
escape_like(stuff) ==
    Replace(Replace(Replace(Replace(stuff,
        <<"%">>, <<"\\", "%">>),
        <<"_">>, <<"\\", "_">>),
        <<"*">>, <<"%">>),
        <<"\\", "*">>, <<"*">>)

\* let escape_prefix = escape_like(&(tag_prefix.to_owned() + "*"))
EscapePrefix(tag_prefix) == escape_like(tag_prefix \o <<"*">>)

(***************************************************************************)
(* Store: what the backend answers to one statement.                       *)
(***************************************************************************)
Tag1 == [id |-> 1, name |-> "abc", post_count |-> 20, category |-> 0,
         antecedent_name |-> "null"]

Tag2 == [id |-> 2, name |-> "abd", post_count |-> 30, category |-> 1,
         antecedent_name |-> "\"abx\""]

\* The row sequences a query can return.
RowSeqs == {<<>>, <<Tag1>>, <<Tag2, Tag1>>}

\* A statement either fails (the ? operator returns the error), returns rows
\* that Tag::from_row_ref maps, or returns a row on which its unwrap panics.
StmtError == [kind |-> "error", rows |-> <<>>]
RowPanic == [kind |-> "panic", rows |-> <<>>]
Rows(rs) == [kind |-> "rows", rows |-> rs]
QueryOutcomes == {Rows(rs) : rs \in RowSeqs} \cup {StmtError, RowPanic}

\* Outcomes of the statement_timeout directive: it returns no rows.
ExecOutcomes == {Rows(<<>>), StmtError}

(***************************************************************************)
(* serde_json::to_string(&results).                                        *)
(***************************************************************************)
TagJson(t) ==
    <<"{\"id\":", ToString(t.id), ",\"name\":\"", t.name,
      "\",\"post_count\":", ToString(t.post_count),
      ",\"category\":", ToString(t.category),
      ",\"antecedent_name\":", t.antecedent_name, "}">>

RECURSIVE JoinTags(_)
JoinTags(rows) ==
    IF rows = <<>> THEN <<>>
    ELSE IF Len(rows) = 1 THEN TagJson(rows[1])
         ELSE TagJson(rows[1]) \o <<",">> \o JoinTags(Tail(rows))

ToJson(rows) == <<"[">> \o JoinTags(rows) \o <<"]">>

EmptyList == <<"[", "]">>

\* to_string(..).unwrap_or_else(|_| "[]".to_string()): the bodies it can yield.
SerializeOutcomes(rows) == {ToJson(rows), EmptyList}

(***************************************************************************)
(* Responses.                                                              *)
(***************************************************************************)
NoResponse == [status |-> 0, cache_control |-> "", body |-> <<>>]

OkResponse(body) ==
    [status |-> 200, cache_control |-> "public, max-age=604800", body |-> body]

error_response(e) ==
    IF e = "BadRequest"
    THEN [status |-> 400, cache_control |-> "private; max-age=0",
          body |-> <<"{\"error\":\"bad request\"}">>]
    ELSE [status |-> 500, cache_control |-> "private; max-age=0",
          body |-> <<"{\"error\":\"internal error\"}">>]

(***************************************************************************)
(* Result Cache: moka Cache built with max_capacity and time_to_live.      *)
(* An entry keeps its value, its age since the insert that wrote it, and   *)
(* (for the record) the request that wrote it.                             *)
(***************************************************************************)
Expired(e) == e.age >= TimeToLive

\* cache.get(&key): an expired entry is absent; the entry is not changed.
Miss == [some |-> FALSE, value |-> <<>>, writer |-> 0]
Hit(e) == [some |-> TRUE, value |-> e.value, writer |-> e.writer]

CacheGet(c, key) ==
    IF key \in DOMAIN c /\ ~Expired(c[key]) THEN Hit(c[key]) ELSE Miss

\* Mutant: the cache is built with time_to_idle, a hit restarts the age.
CacheAfterGet_TimeToIdle(c, key) ==
    IF key \in DOMAIN c /\ ~Expired(c[key])
    THEN [c EXCEPT ![key].age = 0]
    ELSE c

\* The cache is built with time_to_live and no time_to_idle: a get leaves the
\* entry, its age included, as it is.
CacheAfterGet(c, key) == c

Restrict(c, keys) == [k \in keys |-> c[k]]

\* Mutant: an insert leaves an entry that is already there (first write wins).
Put_IfAbsent(c, key, value, w) ==
    IF key \in DOMAIN c THEN c
    ELSE [k \in DOMAIN c \cup {key} |->
            IF k = key THEN [value |-> value, age |-> 0, writer |-> w] ELSE c[k]]

\* Insert or overwrite; the age restarts.
Put(c, key, value, w) ==
    [k \in DOMAIN c \cup {key} |->
        IF k = key THEN [value |-> value, age |-> 0, writer |-> w] ELSE c[k]]

\* The capacity the cache is built with.
Capacity == MaxCapacity

\* Mutant: the cache is built without a capacity.
CacheInsert_Unbounded(c, key, value, w) == {Put(c, key, value, w)}

\* cache.insert(key, value): the caches the call can leave. Over capacity, one
\* entry goes; which one is the cache's choice (it may be the new one).
CacheInsert(c, key, value, w) ==
    LET c1 == Put(c, key, value, w)
    IN  IF Cardinality(DOMAIN c1) <= Capacity THEN {c1}
        ELSE {Restrict(c1, DOMAIN c1 \ {victim}) : victim \in DOMAIN c1}

\* Time passes by d.
Aged(c, d) ==
    [k \in DOMAIN c |->
        [c[k] EXCEPT !.age = IF c[k].age + d >= TimeToLive THEN TimeToLive
                               ELSE c[k].age + d]]

EmptyCache == [k \in {} |-> None]

(***************************************************************************)
(* The request handler, autocomplete.                                      *)
(***************************************************************************)
Reqs == 1..NumReqs

\* The values of search[name_matches] the requests are drawn from.
RawInputs ==
    { <<"a", "b">>,               \* too short
      Rep("a", MaxLen + 1),       \* too long
      <<"a", "b", "c">>,
      <<"A", "b", " ", "c">>,     \* same canonical key as "abc"
      <<"*", "*", "*">>,          \* canonical key ""
      <<"a", "_", "b">> }

NoCalls == [get |-> 0, insert |-> 0, pool_get |-> 0, set_timeout |-> 0,
            tier_a |-> 0, tier_b |-> 0]

Terminal == {"Respond", "Rejected", "Failed", "Panicked"}

Init ==
    /\ pc = [r \in Reqs |-> "idle"]
    /\ raw = [r \in Reqs |-> <<>>]
    /\ prefix = [r \in Reqs |-> <<>>]
    /\ cached = [r \in Reqs |-> Miss]
    /\ client = [r \in Reqs |-> FALSE]
    /\ rowsA = [r \in Reqs |-> <<>>]
    /\ rowsB = [r \in Reqs |-> <<>>]
    /\ results = [r \in Reqs |-> <<>>]
    /\ serialized = [r \in Reqs |-> <<>>]
    /\ resp = [r \in Reqs |-> NoResponse]
    /\ calls = [r \in Reqs |-> NoCalls]
    /\ failed_at = [r \in Reqs |-> "none"]
    /\ logged = [r \in Reqs |-> ""]
    /\ after = [r \in Reqs |-> {}]
    /\ cache = EmptyCache
    /\ borrowed = 0
    /\ fn_pc = "off"
    /\ fn_in = <<>>
    /\ fn_out = Ok(<<>>)
    /\ fn_pat = <<>>

\* Mutant: the connection of a request that ends is never given back.
Finish_KeepsClient(r, state, rp) ==
    /\ pc' = [pc EXCEPT ![r] = state]
    /\ resp' = [resp EXCEPT ![r] = rp]
    /\ UNCHANGED <<client, borrowed>>
    /\ after' = [q \in Reqs |-> IF pc[q] = "idle" THEN after[q] \cup {r} ELSE after[q]]

\* Request r ends with response rp; the connection it holds goes back to the
\* pool when the handler's scope is left. The requests that have not arrived
\* yet will arrive after r's response.
Finish(r, state, rp) ==
    /\ pc' = [pc EXCEPT ![r] = state]
    /\ resp' = [resp EXCEPT ![r] = rp]
    /\ client' = [client EXCEPT ![r] = FALSE]
    /\ borrowed' = IF client[r] THEN borrowed - 1 ELSE borrowed
    /\ after' = [q \in Reqs |-> IF pc[q] = "idle" THEN after[q] \cup {r} ELSE after[q]]

\* What x.to_string() can be for the error of a backend call.
ErrorTexts == {"timeout", "connection closed"}

\* Mutant: the response tells which call failed and the driver's text.
ServerErrorResponse_Leaky(call, text) ==
    [error_response("ServerError") EXCEPT !.body = <<"{\"error\":\"", call, text, "\"}">>]

\* The response of Err(AutocompleteError::ServerError), whatever failed.
ServerErrorResponse(call, text) == error_response("ServerError")

\* Mutant: the error is swallowed and the lookup goes on as if it had
\* returned no rows (unwrap_or_default).
BackendError_Swallowed(r, call) ==
    /\ failed_at' = [failed_at EXCEPT ![r] = call]
    /\ \E text \in ErrorTexts : logged' = [logged EXCEPT ![r] = text]
    /\ pc' = [pc EXCEPT ![r] = "Serialize"]
    /\ UNCHANGED <<resp, client, borrowed, after>>

\* Mutant: the failed call is logged and made again.
BackendError_Retry(r, call) ==
    /\ failed_at' = [failed_at EXCEPT ![r] = call]
    /\ \E text \in ErrorTexts : logged' = [logged EXCEPT ![r] = text]
    /\ UNCHANGED <<pc, resp, client, borrowed, after>>

\* A backend call of r returned an error: error!(..) logs it and the handler
\* returns Err(AutocompleteError::ServerError).
BackendError(r, call) ==
    /\ failed_at' = [failed_at EXCEPT ![r] = call]
    /\ \E text \in ErrorTexts :
          /\ logged' = [logged EXCEPT ![r] = text]
          /\ Finish(r, "Failed", ServerErrorResponse(call, text))

\* The handler is invoked with search[name_matches] = tag. Requests are
\* numbered in the order they arrive.
Arrive(r, tag) ==
    /\ pc[r] = "idle"
    /\ \A q \in Reqs : q < r => pc[q] # "idle"
    /\ pc' = [pc EXCEPT ![r] = "Validating"]
    /\ raw' = [raw EXCEPT ![r] = tag]
    /\ UNCHANGED <<prefix, cached, client, rowsA, rowsB, results, serialized, resp,
                   calls, failed_at, logged, after, cache, borrowed, fnVars>>

\* let prefix = validate_transform_tag(req.tag_prefix.as_str())?;
Validate(r) ==
    /\ pc[r] = "Validating"
    /\ LET res == validate_transform_tag(raw[r])
       IN  IF res.ok
           THEN /\ prefix' = [prefix EXCEPT ![r] = res.val]
                /\ pc' = [pc EXCEPT ![r] = "CacheCheck"]
                /\ UNCHANGED <<resp, client, borrowed, after>>
           ELSE /\ Finish(r, "Rejected", error_response(res.val))
                /\ UNCHANGED prefix
    /\ UNCHANGED <<raw, cached, rowsA, rowsB, results, serialized, calls, failed_at, logged,
                   cache, fnVars>>

\* Mutant: the cache is asked for the raw input instead of the canonical key.
GetKey_Raw(r) == raw[r]

\* The key of data.cache.get(&prefix).
GetKey(r) == prefix[r]

\* let cached = data.cache.get(&prefix); a hit is answered at once.
CacheCheck(r) ==
    /\ pc[r] = "CacheCheck"
    /\ LET got == CacheGet(cache, GetKey(r))
       IN  /\ cached' = [cached EXCEPT ![r] = got]
           /\ cache' = CacheAfterGet(cache, GetKey(r))
           /\ calls' = [calls EXCEPT ![r].get = @ + 1]
           /\ IF got.some
              THEN Finish(r, "Respond", OkResponse(got.value))
              ELSE /\ pc' = [pc EXCEPT ![r] = "StoreLookup"]
                   /\ UNCHANGED <<resp, client, borrowed, after>>
    /\ UNCHANGED <<raw, prefix, rowsA, rowsB, results, serialized, failed_at, logged, fnVars>>

\* Mutant: get_tags starts with the Tier A query, no timeout is set.
FirstStatement_TierA == "TierA"

\* The first statement get_tags executes on the connection it is given.
FirstStatement == "SetTimeout"

\* data.pool.get().await: a connection when one is free; an error (timeout,
\* connection failure) at any time.
PoolGet(r) ==
    /\ pc[r] = "StoreLookup"
    /\ calls' = [calls EXCEPT ![r].pool_get = @ + 1]
    /\ \/ /\ borrowed < PoolSize
          /\ borrowed' = borrowed + 1
          /\ client' = [client EXCEPT ![r] = TRUE]
          /\ pc' = [pc EXCEPT ![r] = FirstStatement]
          /\ UNCHANGED <<resp, after>>
          /\ UNCHANGED <<failed_at, logged>>
       \/ BackendError(r, "pool_get")
    /\ UNCHANGED <<raw, prefix, cached, rowsA, rowsB, results, serialized, cache, fnVars>>

\* get_tags: "set statement_timeout = 3000" prepared and executed.
SetTimeout(r) ==
    /\ pc[r] = "SetTimeout"
    /\ calls' = [calls EXCEPT ![r].set_timeout = @ + 1]
    /\ \E out \in ExecOutcomes :
          IF out.kind = "error"
          THEN BackendError(r, "set_timeout")
          ELSE /\ pc' = [pc EXCEPT ![r] = "TierA"]
               /\ UNCHANGED <<resp, client, borrowed, after, failed_at, logged>>
    /\ UNCHANGED <<raw, prefix, cached, rowsA, rowsB, results, serialized, cache, fnVars>>

\* A panic of the handler unwinds: the connection is dropped, no response is built.
Panic(r) == Finish(r, "Panicked", NoResponse)

\* Mutant: Tier A never returns early, Tier B always runs.
TierAFound_Never(rows) == FALSE

\* if rows.len() > 0 { return Ok(rows); }
TierAFound(rows) == Len(rows) > 0

\* get_tags: fetch_tags_a.sql with the escaped pattern; its rows are the result
\* when there are any.
TierA(r) ==
    /\ pc[r] = "TierA"
    /\ calls' = [calls EXCEPT ![r].tier_a = @ + 1]
    /\ \E out \in QueryOutcomes :
          CASE out.kind = "error" ->
                  /\ BackendError(r, "tier_a")
                  /\ UNCHANGED <<rowsA, results>>
            [] out.kind = "panic" ->
                  /\ Panic(r)
                  /\ UNCHANGED <<rowsA, results, failed_at, logged>>
            [] OTHER ->
                  /\ rowsA' = [rowsA EXCEPT ![r] = out.rows]
                  /\ IF TierAFound(out.rows)
                     THEN /\ results' = [results EXCEPT ![r] = out.rows]
                          /\ pc' = [pc EXCEPT ![r] = "Serialize"]
                     ELSE /\ pc' = [pc EXCEPT ![r] = "TierB"]
                          /\ UNCHANGED results
                  /\ UNCHANGED <<resp, client, borrowed, after, failed_at, logged>>
    /\ UNCHANGED <<raw, prefix, cached, rowsB, serialized, cache, fnVars>>

\* get_tags: fetch_tags_b.sql with the canonical key; its rows are the result.
TierB(r) ==
    /\ pc[r] = "TierB"
    /\ calls' = [calls EXCEPT ![r].tier_b = @ + 1]
    /\ \E out \in QueryOutcomes :
          CASE out.kind = "error" ->
                  /\ BackendError(r, "tier_b")
                  /\ UNCHANGED <<rowsB, results>>
            [] out.kind = "panic" ->
                  /\ Panic(r)
                  /\ UNCHANGED <<rowsB, results, failed_at, logged>>
            [] OTHER ->
                  /\ rowsB' = [rowsB EXCEPT ![r] = out.rows]
                  /\ results' = [results EXCEPT ![r] = out.rows]
                  /\ pc' = [pc EXCEPT ![r] = "Serialize"]
                  /\ UNCHANGED <<resp, client, borrowed, after, failed_at, logged>>
    /\ UNCHANGED <<raw, prefix, cached, rowsA, serialized, cache, fnVars>>

\* Mutant: a serialization error fails the request (map_err + `?`).
Serialize_FailsRequest(r) ==
    /\ pc[r] = "Serialize"
    /\ \E body \in SerializeOutcomes(results[r]) :
          IF body = EmptyList /\ results[r] # <<>>
          THEN /\ Finish(r, "Failed", error_response("ServerError"))
               /\ UNCHANGED serialized
          ELSE /\ serialized' = [serialized EXCEPT ![r] = body]
               /\ pc' = [pc EXCEPT ![r] = "CachePopulate"]
               /\ UNCHANGED <<resp, client, borrowed, after>>
    /\ UNCHANGED <<raw, prefix, cached, rowsA, rowsB, results, calls,
                   failed_at, logged, cache, fnVars>>

\* let serialized = serde_json::to_string(&results).unwrap_or_else(..);
Serialize(r) ==
    /\ pc[r] = "Serialize"
    /\ \E body \in SerializeOutcomes(results[r]) :
          serialized' = [serialized EXCEPT ![r] = body]
    /\ pc' = [pc EXCEPT ![r] = "CachePopulate"]
    /\ UNCHANGED <<raw, prefix, cached, client, rowsA, rowsB, results, resp, calls,
                   failed_at, logged, after, cache, borrowed, fnVars>>

\* Mutant: an empty result is not cached.
CachePopulate_SkipEmpty(r) ==
    /\ pc[r] = "CachePopulate"
    /\ IF serialized[r] = EmptyList
       THEN UNCHANGED <<cache, calls>>
       ELSE /\ cache' \in CacheInsert(cache, prefix[r], serialized[r], r)
            /\ calls' = [calls EXCEPT ![r].insert = @ + 1]
    /\ pc' = [pc EXCEPT ![r] = "Inserted"]
    /\ UNCHANGED <<raw, prefix, cached, client, rowsA, rowsB, results, serialized,
                   resp, failed_at, logged, after, borrowed, fnVars>>

\* data.cache.insert(prefix, serialized).await;
CachePopulate(r) ==
    /\ pc[r] = "CachePopulate"
    /\ cache' \in CacheInsert(cache, prefix[r], serialized[r], r)
    /\ calls' = [calls EXCEPT ![r].insert = @ + 1]
    /\ pc' = [pc EXCEPT ![r] = "Inserted"]
    /\ UNCHANGED <<raw, prefix, cached, client, rowsA, rowsB, results, serialized,
                   resp, failed_at, logged, after, borrowed, fnVars>>

\* Mutant: the body sent is serialized again from the rows instead of being
\* the copy of what went into the cache.
ResponseBody_Reserialized(r) == ToJson(results[r])

\* The body sent after a miss: serialized_copy.
ResponseBody(r) == serialized[r]

\* Ok(HttpResponse::Ok()...body(serialized_copy))
Respond(r) ==
    /\ pc[r] = "Inserted"
    /\ Finish(r, "Respond", OkResponse(ResponseBody(r)))
    /\ UNCHANGED <<raw, prefix, cached, rowsA, rowsB, results, serialized, calls,
                   failed_at, logged, cache, fnVars>>

\* Time passes: by just under the time to live, or by all of it. A request
\* that has not arrived no longer follows the earlier ones in quick succession.
Tick ==
    /\ \E d \in {TimeToLive - 1, TimeToLive} : cache' = Aged(cache, d)
    /\ after' = [q \in Reqs |-> IF pc[q] = "idle" THEN {} ELSE after[q]]
    /\ UNCHANGED <<pc, raw, prefix, cached, client, rowsA, rowsB, results,
                   serialized, resp, calls, failed_at, logged, borrowed, fnVars>>

Next ==
    \/ \E r \in Reqs, tag \in RawInputs : Arrive(r, tag)
    \/ \E r \in Reqs : Validate(r)
    \/ \E r \in Reqs : CacheCheck(r)
    \/ \E r \in Reqs : PoolGet(r)
    \/ \E r \in Reqs : SetTimeout(r)
    \/ \E r \in Reqs : TierA(r)
    \/ \E r \in Reqs : TierB(r)
    \/ \E r \in Reqs : Serialize(r)
    \/ \E r \in Reqs : CachePopulate(r)
    \/ \E r \in Reqs : Respond(r)
    \/ Tick

Spec == Init /\ [][Next]_vars

(***************************************************************************)
(* The Normalizer and the Escaper on their own: validate_transform_tag     *)
(* applied to an input, then escape_like applied as get_tags applies it.   *)
(***************************************************************************)
RECURSIVE SeqsUpTo(_, _)
SeqsUpTo(S, n) ==
    IF n = 0 THEN {<<>>}
    ELSE LET shorter == SeqsUpTo(S, n - 1)
         IN  shorter \cup {<<c>> \o t : c \in S, t \in {u \in shorter : Len(u) = n - 1}}

NormAlphabet == {"a", "A", "e", "*", "%", "_", "\\", " ", "ACUTE", "I_DOT", "NBSP"}

\* Paddings that bring a short head to the limits of the length check.
Paddings == {<<>>, Rep("a", MaxLen - MaxHead), Rep("I_DOT", (MaxLen \div 2) - 1)}

NormInputs == {h \o p : h \in SeqsUpTo(NormAlphabet, MaxHead), p \in Paddings}

EscAlphabet == {"a", "*", "%", "_", "\\"}

\* Strings handed to the Escaper directly.
EscKeys == SeqsUpTo(EscAlphabet, MaxHead)

FnIdle ==
    /\ pc = [r \in Reqs |-> "idle"]
    /\ raw = [r \in Reqs |-> <<>>]
    /\ prefix = [r \in Reqs |-> <<>>]
    /\ cached = [r \in Reqs |-> Miss]
    /\ client = [r \in Reqs |-> FALSE]
    /\ rowsA = [r \in Reqs |-> <<>>]
    /\ rowsB = [r \in Reqs |-> <<>>]
    /\ results = [r \in Reqs |-> <<>>]
    /\ serialized = [r \in Reqs |-> <<>>]
    /\ resp = [r \in Reqs |-> NoResponse]
    /\ calls = [r \in Reqs |-> NoCalls]
    /\ failed_at = [r \in Reqs |-> "none"]
    /\ logged = [r \in Reqs |-> ""]
    /\ after = [r \in Reqs |-> {}]
    /\ cache = EmptyCache
    /\ borrowed = 0

InitNorm ==
    /\ FnIdle
    /\ fn_pc = "call"
    /\ fn_in \in NormInputs
    /\ fn_out = Ok(<<>>)
    /\ fn_pat = <<>>

InitEsc ==
    /\ FnIdle
    /\ fn_pc = "validated"
    /\ fn_in = <<>>
    /\ fn_out \in {Ok(k) : k \in EscKeys}
    /\ fn_pat = <<>>

NormCall ==
    /\ fn_pc = "call"
    /\ fn_out' = validate_transform_tag(fn_in)
    /\ fn_pc' = "validated"
    /\ UNCHANGED <<fn_in, fn_pat, reqVars>>

EscCall ==
    /\ fn_pc = "validated"
    /\ fn_out.ok
    /\ fn_pat' = EscapePrefix(fn_out.val)
    /\ fn_pc' = "escaped"
    /\ UNCHANGED <<fn_in, fn_out, reqVars>>

NextNorm == NormCall \/ EscCall

NextEsc == EscCall

SpecNorm == InitNorm /\ [][NextNorm]_vars

SpecEsc == InitEsc /\ [][NextEsc]_vars

(***************************************************************************)
(* Properties.                                                             *)
(***************************************************************************)
BadLength(tag) == TooShort(tag) \/ TooLong(tag)

Started(r) == pc[r] \notin {"idle", "Validating"}

\* r went through the miss path and db::get_tags returned Ok.
GotTags(r) == pc[r] \in {"Serialize", "CachePopulate", "Inserted"}
              \/ (pc[r] = "Respond" /\ ~cached[r].some)

WrittenBy(r) == {k \in DOMAIN cache : cache[k].writer = r}

\* C1: a raw input of fewer than 3 or more than 100 bytes ends in
\* Rejected with the bad-request response, and the request has made no cache
\* get, no cache insert, no pool checkout and no store statement.
C1_BadInputRejected ==
    \A r \in Reqs :
        Started(r) /\ BadLength(raw[r]) =>
            /\ pc[r] = "Rejected"
            /\ resp[r] = error_response("BadRequest")
            /\ calls[r] = NoCalls
            /\ ~client[r]
            /\ WrittenBy(r) = {}

C1_Witness ==
    \E r1, r2 \in Reqs :
        /\ pc[r1] = "Rejected" /\ TooShort(raw[r1])
        /\ pc[r2] = "Rejected" /\ TooLong(raw[r2])

\* C2: a CacheCheck that finds the key present and unexpired ends the
\* request in Respond with status 200 and exactly the cached body; the step
\* leaves the cache and the pool as they are, and such a request has made no
\* pool checkout, no store statement and no cache insert.
C2_HitStep(r) ==
    pc[r] = "CacheCheck" /\ pc'[r] # "CacheCheck"
    /\ prefix[r] \in DOMAIN cache /\ ~Expired(cache[prefix[r]]) =>
        /\ pc'[r] = "Respond"
        /\ resp'[r] = OkResponse(cache[prefix[r]].value)
        /\ cache' = cache
        /\ borrowed' = borrowed
        /\ calls'[r] = [NoCalls EXCEPT !.get = 1]

C2_HitRespondsFromCache == [][\A r \in Reqs : C2_HitStep(r)]_vars

C2_Witness ==
    \E r \in Reqs : pc[r] = "Respond" /\ cached[r].some /\ cached[r].value # EmptyList

\* C3: Tier B is issued only after Tier A returned zero rows; the result of
\* get_tags is the Tier A rows when there are any, and the Tier B rows otherwise.
C3_TierFallback ==
    \A r \in Reqs :
        /\ calls[r].tier_b > 0 => calls[r].tier_a = 1 /\ rowsA[r] = <<>>
        /\ GotTags(r) =>
              IF rowsA[r] # <<>>
              THEN results[r] = rowsA[r] /\ calls[r].tier_b = 0
              ELSE results[r] = rowsB[r] /\ calls[r].tier_b = 1

C3_Witness ==
    \E r1, r2 \in Reqs :
        /\ pc[r1] = "Respond" /\ rowsA[r1] = <<>> /\ results[r1] = <<Tag2, Tag1>>
        /\ pc[r2] = "Respond" /\ rowsA[r2] = <<Tag1>> /\ results[r2] = <<Tag1>>

Responded(r) == pc[r] \in {"Respond", "Rejected", "Failed"}

\* The insert the body of a successful r came from: r's own, or the one
\* that wrote the entry r hit.
Source(r) == IF cached[r].some THEN cached[r].writer ELSE r

\* C4 as stated: a request that arrives right after the response to a request
\* for the same raw input gets a byte-identical body.
C4_Idempotent ==
    \A r1, r2 \in Reqs :
        r1 \in after[r2] /\ raw[r1] = raw[r2] /\ Responded(r1) /\ Responded(r2) =>
            resp[r2].body = resp[r1].body

\* C4, amended: the two bodies are identical when the first request is
\* rejected, and when the first succeeds and the second is a hit on the
\* cache entry the first's body came from.
C4_IdempotentWhenServedFromSameEntry ==
    \A r1, r2 \in Reqs :
        r1 \in after[r2] /\ raw[r1] = raw[r2] /\ Responded(r2) =>
            /\ pc[r1] = "Rejected" => resp[r2] = resp[r1]
            /\ pc[r1] = "Respond" /\ cached[r2].some /\ cached[r2].writer = Source(r1)
                  => resp[r2] = resp[r1]

C4_Witness ==
    \E r1, r2 \in Reqs :
        /\ r1 \in after[r2] /\ raw[r1] = raw[r2]
        /\ pc[r1] = "Respond" /\ ~cached[r1].some /\ results[r1] # <<>>
        /\ pc[r2] = "Respond" /\ cached[r2].some /\ cached[r2].writer = r1

InRange(s) == ByteLen(s) >= MinLen /\ ByteLen(s) <= MaxLen

\* C5 as stated: every canonical key the Normalizer returns has a length
\* between 3 and 100.
C5_KeyLengthInRange ==
    fn_pc # "call" /\ fn_out.ok => InRange(fn_out.val)

\* C5, amended: every canonical key the Normalizer returns comes from a raw
\* input of 3 to 100 bytes and holds no `*`, no `%` and no whitespace; its own
\* length is not checked.
C5_RawLengthInRange ==
    fn_pc # "call" /\ fn_out.ok =>
        /\ InRange(fn_in)
        /\ \A i \in 1..Len(fn_out.val) :
              fn_out.val[i] \notin {"*", "%"} /\ ~IsWhitespace(fn_out.val[i])

C5_Witness ==
    fn_pc = "escaped" /\ fn_out.ok /\ ByteLen(fn_out.val) > MaxLen

Checks(r) == pc[r] = "CacheCheck" /\ pc'[r] # "CacheCheck"

\* r takes its CachePopulate step.
Populates(r) == pc[r] = "CachePopulate" /\ pc'[r] = "Inserted"

\* C7: an entry's age restarts only when the entry is inserted again; a get
\* leaves the cache as it is, serves no entry as old as the time to live, and
\* sends the request that finds such an entry to StoreLookup.
C7_Step ==
    /\ \A r \in Reqs : Checks(r) =>
          /\ cache' = cache
          /\ cached'[r].some => ~Expired(cache[prefix[r]])
          /\ prefix[r] \in DOMAIN cache /\ Expired(cache[prefix[r]]) =>
                pc'[r] = "StoreLookup"
    /\ \A k \in DOMAIN cache \cap DOMAIN cache' :
          cache'[k].age < cache[k].age =>
              /\ cache'[k].age = 0
              /\ \E r \in Reqs : Populates(r) /\ prefix[r] = k

C7_TimeToLiveNotIdle == [][C7_Step]_vars

C7_Witness ==
    \E r1, r2 \in Reqs :
        /\ pc[r1] = "StoreLookup" /\ calls[r1].get = 1
        /\ prefix[r1] \in DOMAIN cache
        /\ Expired(cache[prefix[r1]])
        /\ cache[prefix[r1]].writer = r2

\* Both tiers of r's lookup returned zero rows.
BothTiersEmpty(r) ==
    /\ calls[r].tier_b = 1
    /\ failed_at[r] = "none"
    /\ pc[r] \notin {"TierB", "Panicked"}
    /\ rowsB[r] = <<>>

\* C8: when both tiers return zero rows the request goes on to serialize
\* `[]`, inserts `[]` in the cache under its canonical key and responds with
\* status 200, public cache-control and body `[]`.
C8_EmptyResultCached ==
    \A r \in Reqs :
        BothTiersEmpty(r) =>
            /\ GotTags(r)
            /\ rowsA[r] = <<>> /\ results[r] = <<>>
            /\ pc[r] \in {"CachePopulate", "Inserted", "Respond"} =>
                  serialized[r] = EmptyList
            /\ pc[r] \in {"Inserted", "Respond"} =>
                  /\ calls[r].insert = 1
                  /\ \A k \in WrittenBy(r) : k = prefix[r] /\ cache[k].value = EmptyList
            /\ pc[r] = "Respond" =>
                  resp[r] = [status |-> 200, cache_control |-> "public, max-age=604800",
                             body |-> EmptyList]

C8_Witness ==
    \E r \in Reqs :
        /\ BothTiersEmpty(r) /\ pc[r] = "Respond"
        /\ prefix[r] \in DOMAIN cache
        /\ cache[prefix[r]] = [value |-> EmptyList, age |-> 0, writer |-> r]

\* C10: a request whose pool checkout or store statement returned an error
\* is Failed with the server-error response; it has made no cache insert, no
\* cache entry is its own, and it holds no connection.
C10_FailureNotCached ==
    \A r \in Reqs :
        failed_at[r] # "none" =>
            /\ pc[r] = "Failed"
            /\ resp[r] = error_response("ServerError")
            /\ resp[r].status = 500
            /\ calls[r].insert = 0
            /\ WrittenBy(r) = {}
            /\ ~client[r]

C10_Witness ==
    \E r1, r2 \in Reqs :
        /\ failed_at[r1] = "pool_get" /\ pc[r1] = "Failed"
        /\ failed_at[r2] = "tier_b" /\ pc[r2] = "Failed"
        /\ cache = EmptyCache

(***************************************************************************)
(* How the backend reads a LIKE pattern (escape character backslash): the  *)
(* stub matcher of the Escaper's properties.                               *)
(***************************************************************************)
Lit(c) == [kind |-> "literal", ch |-> c]
AnyString == [kind |-> "any_string", ch |-> "%"]
AnyChar == [kind |-> "any_char", ch |-> "_"]
EscapeMark == [kind |-> "escape", ch |-> "\\"]

\* Number of backslashes right before position i of p.
BackslashesBefore(p, i) ==
    LET others == {j \in 1..(i - 1) : p[j] # "\\"}
        last == IF others = {} THEN 0 ELSE CHOOSE j \in others : \A m \in others : m <= j
    IN  i - 1 - last

\* What position i of p stands for: a backslash after an even number of
\* backslashes escapes the next character, a character after an odd number
\* of them is literal, and otherwise `%` and `_` are wildcards.
LikeTokenAt(p, i) ==
    IF BackslashesBefore(p, i) % 2 = 1 THEN Lit(p[i])
    ELSE IF p[i] = "\\" THEN EscapeMark
    ELSE IF p[i] = "%" THEN AnyString
    ELSE IF p[i] = "_" THEN AnyChar
    ELSE Lit(p[i])

LikeTokens(p) ==
    SelectSeq([i \in 1..Len(p) |-> LikeTokenAt(p, i)], LAMBDA t : t # EscapeMark)

Count(seq, x) == Cardinality({i \in 1..Len(seq) : seq[i] = x})

\* C9: for a key that holds a literal `*`, the pattern escape_like makes of
\* key + `*` keeps every `*` of the key as a literal `*`, and its only wildcard
\* is the one appended.
C9_StarStaysLiteral ==
    fn_pc = "escaped" /\ Count(fn_out.val, "*") > 0 =>
        /\ Count(LikeTokens(fn_pat), Lit("*")) = Count(fn_out.val, "*")
        /\ Count(LikeTokens(fn_pat), AnyString) = 1

\* C11: a request whose raw input differs from the one that populated the
\* cache but has the same canonical key is, while that entry is present and
\* unexpired, a hit: it responds with the first request's response and makes
\* no pool checkout and no store statement.
C11_Step(r) ==
    Checks(r) /\ prefix[r] \in DOMAIN cache /\ ~Expired(cache[prefix[r]]) =>
        LET w == cache[prefix[r]].writer
        IN  raw[w] # raw[r] /\ pc[w] = "Respond" =>
                /\ prefix[r] = prefix[w]
                /\ pc'[r] = "Respond"
                /\ cached'[r].some
                /\ resp'[r] = resp[w]
                /\ calls'[r].pool_get = 0 /\ calls'[r].set_timeout = 0
                /\ calls'[r].tier_a = 0 /\ calls'[r].tier_b = 0
                /\ calls'[r].insert = 0

C11_SameKeyCollapses == [][\A r \in Reqs : C11_Step(r)]_vars

C11_Witness ==
    \E r1, r2 \in Reqs :
        /\ raw[r1] # raw[r2] /\ prefix[r1] = prefix[r2]
        /\ pc[r1] = "Respond" /\ ~cached[r1].some /\ results[r1] # <<>>
        /\ pc[r2] = "Respond" /\ cached[r2].some /\ cached[r2].writer = r1
        /\ resp[r2] = resp[r1]

\* C12: a cache insert always takes effect over the entry found: after the
\* insert of r the entry of r's key, if the cache keeps it, holds r's body,
\* and every other entry is as it was or evicted; no other step changes the
\* value of an entry. So of two requests that missed the same key the later
\* insert decides the entry.
C12_Step ==
    /\ \A r \in Reqs : Populates(r) =>
          /\ prefix[r] \in DOMAIN cache' =>
                cache'[prefix[r]] = [value |-> serialized[r], age |-> 0, writer |-> r]
          /\ \A k \in DOMAIN cache' \ {prefix[r]} : k \in DOMAIN cache /\ cache'[k] = cache[k]
    /\ (\A r \in Reqs : ~Populates(r)) =>
          \A k \in DOMAIN cache' :
              /\ k \in DOMAIN cache
              /\ cache'[k].value = cache[k].value
              /\ cache'[k].writer = cache[k].writer

\* Every entry holds the body of the request that wrote it last, under that
\* request's canonical key.
C12_EntryIsLastWriters ==
    \A k \in DOMAIN cache :
        /\ prefix[cache[k].writer] = k
        /\ cache[k].value = serialized[cache[k].writer]
        /\ calls[cache[k].writer].insert = 1

C12_LastWriteWins == [][C12_Step /\ C12_EntryIsLastWriters']_vars

\* Two requests missed the same key while both were in flight.
C12_BothInStoreLookup ==
    \E r1, r2 \in Reqs :
        /\ r1 # r2 /\ prefix[r1] = prefix[r2]
        /\ pc[r1] = "StoreLookup" /\ pc[r2] = "StoreLookup"

C12_Witness ==
    \E r1, r2 \in Reqs :
        /\ r1 < r2 /\ prefix[r1] = prefix[r2]
        /\ r1 \notin after[r2]
        /\ pc[r1] = "Respond" /\ ~cached[r1].some /\ calls[r1].insert = 1
        /\ pc[r2] = "Respond" /\ ~cached[r2].some /\ calls[r2].insert = 1
        /\ serialized[r1] # serialized[r2]
        /\ prefix[r1] \in DOMAIN cache
        /\ cache[prefix[r1]].value = serialized[r1]

\* The key's characters, each read as itself.
Literals(key) == [i \in 1..Len(key) |-> Lit(key[i])]

\* C13: for every canonical key of the Normalizer the pattern given to Tier A
\* is the key with every `%` and `_` prefixed by a backslash and one `%`
\* appended, and the backend reads it as the key's characters, literally,
\* followed by exactly one wildcard: the appended `%`, unescaped, and no
\* other.
C13_PatternIsEscapedPrefix ==
    fn_pc = "escaped" =>
        LET key == fn_out.val
        IN  /\ fn_pat = Replace(Replace(key, <<"%">>, <<"\\", "%">>),
                                <<"_">>, <<"\\", "_">>) \o <<"%">>
            /\ LikeTokenAt(fn_pat, Len(fn_pat)) = AnyString
            /\ LikeTokens(fn_pat) = Literals(key) \o <<AnyString>>

\* C14: a request has set the statement timeout, on the connection it holds
\* and with success, before its Tier A query and before its Tier B query; when
\* the directive fails the request fails and issues neither query.
C14_TimeoutBeforeQueries ==
    \A r \in Reqs :
        /\ pc[r] \in {"SetTimeout", "TierA", "TierB"} => client[r]
        /\ pc[r] \in {"TierA", "TierB"} \/ calls[r].tier_a > 0 \/ calls[r].tier_b > 0 =>
              calls[r].set_timeout = 1 /\ failed_at[r] # "set_timeout"
        /\ calls[r].tier_b > 0 => calls[r].tier_a = 1
        /\ failed_at[r] = "set_timeout" =>
              /\ pc[r] = "Failed"
              /\ resp[r] = error_response("ServerError")
              /\ calls[r].tier_a = 0 /\ calls[r].tier_b = 0

C14_Witness ==
    \E r1, r2 \in Reqs :
        /\ failed_at[r1] = "set_timeout" /\ pc[r1] = "Failed"
        /\ calls[r1].set_timeout = 1 /\ calls[r1].tier_a = 0
        /\ calls[r2].set_timeout = 1 /\ calls[r2].tier_a = 1 /\ calls[r2].tier_b = 1
        /\ failed_at[r2] = "none"

\* The store operations a request makes after the call named: none may follow
\* its failure.
LaterCalls(r, call) ==
    CASE call = "pool_get" -> calls[r].set_timeout + calls[r].tier_a + calls[r].tier_b
      [] call = "set_timeout" -> calls[r].tier_a + calls[r].tier_b
      [] call = "tier_a" -> calls[r].tier_b
      [] OTHER -> 0

\* C15: a request makes at most one pool checkout, one timeout directive,
\* one Tier A query and one Tier B query, and the first of them that fails is
\* its last store operation: the request is Failed at once.
C15_NoRetry ==
    \A r \in Reqs :
        /\ calls[r].pool_get <= 1 /\ calls[r].set_timeout <= 1
        /\ calls[r].tier_a <= 1 /\ calls[r].tier_b <= 1
        /\ failed_at[r] # "none" =>
              /\ pc[r] = "Failed"
              /\ LaterCalls(r, failed_at[r]) = 0
              /\ calls[r].insert = 0

C15_Witness ==
    \E r1, r2 \in Reqs :
        /\ failed_at[r1] = "tier_a" /\ pc[r1] = "Failed"
        /\ calls[r1].pool_get = 1 /\ calls[r1].tier_a = 1 /\ calls[r1].tier_b = 0
        /\ failed_at[r2] = "pool_get" /\ pc[r2] = "Failed"
        /\ calls[r2].pool_get = 1 /\ calls[r2].set_timeout = 0

\* C16: the responses of two failed requests are the same in status, headers
\* and body whatever call failed and whatever the driver's error said, and
\* are private with max-age 0; the cause is in the log only.
C16_ServerErrorIsGeneric ==
    \A r1, r2 \in Reqs :
        failed_at[r1] # "none" /\ failed_at[r2] # "none"
        /\ pc[r1] = "Failed" /\ pc[r2] = "Failed" =>
            /\ resp[r1] = resp[r2]
            /\ resp[r1].status = 500
            /\ resp[r1].cache_control = "private; max-age=0"

C16_Witness ==
    \E r1, r2 \in Reqs :
        /\ pc[r1] = "Failed" /\ pc[r2] = "Failed"
        /\ failed_at[r1] = "set_timeout" /\ failed_at[r2] = "tier_b"
        /\ logged[r1] # logged[r2] /\ logged[r1] # "" /\ logged[r2] # ""
        /\ raw[r1] = raw[r2]
        /\ resp[r1] = resp[r2]

\* The lookup of r returned rows and their serialization failed: the body is
\* the substitute `[]`.
SerializeFellBack(r) ==
    /\ pc[r] \in {"CachePopulate", "Inserted", "Respond"}
    /\ ~cached[r].some
    /\ results[r] # <<>>
    /\ serialized[r] = EmptyList

\* C17: a request whose lookup returned rows never fails; when serializing
\* them fails its body is `[]`, it goes on to insert `[]` under its canonical
\* key and responds with status 200 and the body `[]`.
C17_SerializeFailureDegrades ==
    \A r \in Reqs :
        /\ results[r] # <<>> =>
              pc[r] \in {"Serialize", "CachePopulate", "Inserted", "Respond"}
        /\ GotTags(r) /\ pc[r] # "Serialize" =>
              serialized[r] \in {ToJson(results[r]), EmptyList}
        /\ SerializeFellBack(r) =>
              /\ failed_at[r] = "none"
              /\ pc[r] \in {"Inserted", "Respond"} =>
                    /\ calls[r].insert = 1
                    /\ \A k \in WrittenBy(r) : k = prefix[r] /\ cache[k].value = EmptyList
              /\ pc[r] = "Respond" => resp[r] = OkResponse(EmptyList)

C17_Witness ==
    \E r \in Reqs :
        /\ SerializeFellBack(r) /\ pc[r] = "Respond"
        /\ resp[r].status = 200 /\ resp[r].body = EmptyList
        /\ prefix[r] \in WrittenBy(r)
        /\ cache[prefix[r]].value = EmptyList

\* C18: a request that missed has made its cache insert before it has a
\* response, and the body of its response is the body it inserted under its
\* canonical key.
C18_InsertBeforeResponse ==
    \A r \in Reqs :
        /\ pc[r] \in {"Serialize", "CachePopulate"} =>
              resp[r] = NoResponse /\ calls[r].insert = 0
        /\ pc[r] = "Inserted" => resp[r] = NoResponse /\ calls[r].insert = 1
        /\ pc[r] = "Respond" /\ ~cached[r].some =>
              /\ calls[r].insert = 1
              /\ resp[r].status = 200
              /\ resp[r].body = serialized[r]
              /\ \A k \in WrittenBy(r) : k = prefix[r] /\ cache[k].value = resp[r].body

C18_Witness ==
    \E r \in Reqs :
        /\ pc[r] = "Respond" /\ ~cached[r].some /\ calls[r].insert = 1
        /\ results[r] # <<>> /\ resp[r].body = ToJson(results[r])
        /\ prefix[r] \in WrittenBy(r)
        /\ cache[prefix[r]].value = resp[r].body

Holders == {r \in Reqs : client[r]}

\* C19: only a request that missed the cache checks a connection out, once;
\* the connections out are those the requests hold, never more than the pool
\* has; a request that has ended holds none, so none is out when all have
\* ended.
C19_ConnectionsReturned ==
    /\ borrowed = Cardinality(Holders)
    /\ borrowed <= PoolSize
    /\ \A r \in Reqs :
          /\ calls[r].pool_get <= 1
          /\ calls[r].pool_get = 1 => calls[r].get = 1 /\ ~cached[r].some
          /\ client[r] =>
                /\ calls[r].pool_get = 1
                /\ pc[r] \in {"SetTimeout", "TierA", "TierB", "Serialize",
                              "CachePopulate", "Inserted"}
          /\ pc[r] \in Terminal => ~client[r]
    /\ (\A r \in Reqs : pc[r] \in Terminal) => borrowed = 0

C19_Witness ==
    /\ \A r \in Reqs : pc[r] \in Terminal
    /\ borrowed = 0
    /\ \E r1, r2 \in Reqs :
          /\ pc[r1] = "Respond" /\ ~cached[r1].some /\ calls[r1].pool_get = 1
          /\ pc[r2] = "Failed" /\ failed_at[r2] = "tier_a"

\* The transitions of a request: Validating -> CacheCheck -> {hit |
\* StoreLookup (checkout, timeout, Tier A, Tier B) -> Serialize ->
\* CachePopulate} -> Respond, with the exits to Rejected and Failed.
Transitions ==
    { <<"idle", "Validating">>,
      <<"Validating", "CacheCheck">>, <<"Validating", "Rejected">>,
      <<"CacheCheck", "Respond">>, <<"CacheCheck", "StoreLookup">>,
      <<"StoreLookup", "SetTimeout">>, <<"StoreLookup", "Failed">>,
      <<"SetTimeout", "TierA">>, <<"SetTimeout", "Failed">>,
      <<"TierA", "TierB">>, <<"TierA", "Serialize">>, <<"TierA", "Failed">>,
      <<"TierB", "Serialize">>, <<"TierB", "Failed">>,
      <<"Serialize", "CachePopulate">>,
      <<"CachePopulate", "Inserted">>,
      <<"Inserted", "Respond">> }

\* C20: a request moves only along the listed transitions, so whenever its
\* backend calls have returned it is on the way to, or in, exactly one of
\* Rejected, Failed and Respond.
C20_Step ==
    \A r \in Reqs :
        pc'[r] # pc[r] =>
            /\ <<pc[r], pc'[r]>> \in Transitions
            /\ pc[r] \notin {"Respond", "Rejected", "Failed"}

C20_OnlyListedTransitions == [][C20_Step]_vars

====
